---- MODULE Spec2Model ----
(***************************************************************************)
(* Model of the dual-stream pause-correlation scan of                      *)
(* intro_chapter_adder: Detector::detect (src/src/detect.rs), its          *)
(* StreamState tracker, the DetectState correlator on the audio side (the  *)
(* callback closure) and on the video side (the metadata match), and the   *)
(* SilenceDetector behind the PauseDetector trait.                         *)
(*                                                                         *)
(* Durations are counted in units of 1/UnitsPerSecond seconds.  Frame      *)
(* timestamps are raw ticks of the medium's time base and pass through     *)
(* to_duration before the correlator sees them.                            *)
(***************************************************************************)
EXTENDS Integers, Sequences, FiniteSets, TLC

\* ---------------------------------------------------------------- bounds
MaxTime == 4
MaxThreshold == 1
MaxUntil == 2
MaxPackets == 2
MaxCandidates == 2
MaxOps == 6

\* ------------------------------------------------------------- constants
UnitsPerSecond == 2
AudioStream == 1
VideoStream == 0
NumStreams == 3
AudioTimeBase == <<1, 2>>
VideoTimeBase == <<1, 1>>
NoTs == -1
NoFrame == -2

VARIABLES
    pc,            \* position of detect: next, adecoded, afilter, video,
                   \* vdecoded, vfilter, check, broke, exhausted, error,
                   \* panic; "tracker" in SpecTracker
    remaining,     \* packets the demultiplexer has still to deliver
    pkt,           \* stream index of the packet of the current iteration
    dec,           \* timestamp of the frame just decoded, not yet filtered
    ret,           \* result of the last detected_pauses_from_packet call
    state,         \* StreamState of detect
    blank_state,   \* DetectState of detect
    candidates,    \* Vec<Candidate> of detect
    at_end,        \* SilenceDetector.at_end
    inside_pause,  \* SilenceDetector.inside_pause
    until,         \* argument of detect
    threshold,     \* argument of detect
    aclk,          \* last timestamp (ticks) of a filtered audio frame
    vclk,          \* last timestamp (ticks) of a filtered video frame
    astart,        \* history: Duration of the last audio Start event
    vstart,        \* history: Duration of the last video Start event
    vdone,         \* history: a decoded video frame had timestamp >= until
    ev,            \* history: the last (event, blank_state) pair matched
    joiner,        \* history: the medium whose Start made both paused
    ops,           \* history of StreamState transitions (SpecTracker)
    mirror         \* history: the correlator run on the same events with the
                   \* roles of audio and video exchanged

vars == <<pc, remaining, pkt, dec, ret, state, blank_state, candidates, at_end,
          inside_pause, until, threshold, aclk, vclk, astart, vstart,
          vdone, ev, joiner, ops, mirror>>

\* ------------------------------------------------------------ util.rs
to_duration(time_ref, time_base) ==
    (time_ref * time_base[1] * UnitsPerSecond) \div time_base[2]

Ticks(time_base) == {t \in 0..(MaxTime * time_base[2]) : to_duration(t, time_base) <= MaxTime}

max_min(a, b) == IF a >= b THEN b ELSE a

max(a, b) == IF a >= b THEN a ELSE b

\* ------------------------------------------------------------ StreamState
StreamStates == {"Ongoing", "EndOfAudio", "EndOfVideo", "End"}

end_of_audio_always(s) == "EndOfAudio"

end_of_audio(s) == IF s = "EndOfVideo" THEN "End" ELSE "EndOfAudio"

end_of_video(s) == IF s = "EndOfAudio" THEN "End" ELSE "EndOfVideo"

reading_audio(s) == s \notin {"End", "EndOfAudio"}

reading_video(s) == s \notin {"End", "EndOfVideo"}

stream_at_end_never(s) == FALSE

stream_at_end(s) == s = "End"

\* ------------------------------------------------------------ DetectState
DSNone == [kind |-> "None", video |-> NoTs, audio |-> NoTs]

DSVideo(d) == [kind |-> "Video", video |-> d, audio |-> NoTs]

DSAudio(d) == [kind |-> "Audio", video |-> NoTs, audio |-> d]

DSVideoAndAudio(v, a) == [kind |-> "VideoAndAudio", video |-> v, audio |-> a]

Candidate(offset, length) == [offset |-> offset, length |-> length]

\* ------------------------------------------------------------ PauseMatch
PMNone == [tag |-> "None", ts |-> NoTs]

PMStart(d) == [tag |-> "Start", ts |-> d]

PMEnd(d) == [tag |-> "End", ts |-> d]

\* A filtered frame: the run-start tag, the run-end tag and the timestamp.
Frame(start, end, ts) == [start |-> start, end |-> end, ts |-> ts]

Frames(clk, time_base) ==
    {Frame(s, e, t) : s \in BOOLEAN, e \in BOOLEAN,
                      t \in {NoTs} \cup {x \in Ticks(time_base) : x >= clk}}

\* A run shorter than the filter's minimum: both tags on one frame.
BothTagsNever(f) == FALSE

BothTags(f) == f.start /\ f.end

InsideAfterEndStuck == TRUE

InsideAfterEnd == FALSE

PushFront(cands, c) == <<c>> \o cands

Push(cands, c) == Append(cands, c)

\* SilenceDetector::frame_matches: the event, the new inside_pause, or panic.
frame_matches(inside, f) ==
    IF ~f.start /\ ~f.end THEN [pause |-> PMNone, inside |-> inside, panic |-> FALSE]
    ELSE IF BothTags(f) THEN [pause |-> PMNone, inside |-> inside, panic |-> FALSE]
    ELSE IF inside /\ ~f.start /\ f.end /\ f.ts # NoTs
        THEN [pause |-> PMEnd(to_duration(f.ts, AudioTimeBase)), inside |-> InsideAfterEnd, panic |-> FALSE]
    ELSE IF ~inside /\ f.start /\ ~f.end /\ f.ts # NoTs
        THEN [pause |-> PMStart(to_duration(f.ts, AudioTimeBase)), inside |-> TRUE, panic |-> FALSE]
    ELSE [pause |-> PMNone, inside |-> inside, panic |-> TRUE]

\* The closure detect hands to detected_pauses_from_packet.
AudioThresholdInclusive(length, thr) == length >= thr

AudioThresholdTest(length, thr) == length > thr

AudioLength(end, bs) == end - bs.audio

AudioAfterEnd(bs) == DSVideo(bs.video)

AudioJoin(bs, d) == DSVideoAndAudio(bs.video, d)

AudioEndAloneStays(bs) == bs

AudioEndAlone(bs) == DSNone

AudioCallback(pause, bs, cands, thr) ==
    IF pause.tag = "None" THEN [bs |-> bs, cands |-> cands, out |-> "ok"]
    ELSE IF pause.tag = "Start" /\ bs.kind = "None"
        THEN [bs |-> DSAudio(pause.ts), cands |-> cands, out |-> "ok"]
    ELSE IF pause.tag = "Start" /\ bs.kind = "Video"
        THEN [bs |-> AudioJoin(bs, pause.ts), cands |-> cands, out |-> "ok"]
    ELSE IF pause.tag = "End" /\ bs.kind = "VideoAndAudio"
        THEN LET offset == max(bs.video, bs.audio)
                 length == AudioLength(pause.ts, bs)
             IN  IF length < 0
                 THEN [bs |-> bs, cands |-> cands, out |-> "panic"]
                 ELSE [bs |-> AudioAfterEnd(bs),
                       cands |-> IF AudioThresholdTest(length, thr)
                                 THEN Push(cands, Candidate(offset, length))
                                 ELSE cands,
                       out |-> "ok"]
    ELSE IF pause.tag = "End" /\ bs.kind = "Audio"
        THEN [bs |-> AudioEndAlone(bs), cands |-> cands, out |-> "ok"]
    ELSE [bs |-> bs, cands |-> cands, out |-> "panic"]

\* The match on (blank_state, black_start, black_end, timestamp) of detect.
VideoThresholdAlways(length, thr) == length >= 0

VideoThresholdTest(length, thr) == length > thr

VideoLength(end, bs) == end - bs.video

VideoAfterEnd(bs) == DSAudio(bs.audio)

VideoJoin(bs, d) == DSVideoAndAudio(bs.audio, d)

VideoEndAlone(bs) == DSNone

VideoMatch(f, bs, cands, thr) ==
    IF ~f.start /\ ~f.end THEN [bs |-> bs, cands |-> cands, out |-> "ok"]
    ELSE IF BothTags(f) THEN [bs |-> bs, cands |-> cands, out |-> "ok"]
    ELSE IF bs.kind = "Video" /\ ~f.start /\ f.end
        THEN [bs |-> VideoEndAlone(bs), cands |-> cands, out |-> "ok"]
    ELSE IF bs.kind = "None" /\ f.start /\ ~f.end /\ f.ts # NoTs
        THEN [bs |-> DSVideo(to_duration(f.ts, VideoTimeBase)), cands |-> cands, out |-> "ok"]
    ELSE IF bs.kind = "Audio" /\ f.start /\ ~f.end /\ f.ts # NoTs
        THEN [bs |-> VideoJoin(bs, to_duration(f.ts, VideoTimeBase)),
              cands |-> cands, out |-> "ok"]
    ELSE IF bs.kind = "VideoAndAudio" /\ ~f.start /\ f.end /\ f.ts # NoTs
        THEN LET offset == max(bs.video, bs.audio)
                 end == to_duration(f.ts, VideoTimeBase)
                 length == VideoLength(end, bs)
             IN  IF length < 0
                 THEN [bs |-> bs, cands |-> cands, out |-> "panic"]
                 ELSE [bs |-> VideoAfterEnd(bs),
                       cands |-> IF VideoThresholdTest(length, thr)
                                 THEN Push(cands, Candidate(offset, length))
                                 ELSE cands,
                       out |-> "ok"]
    ELSE [bs |-> bs, cands |-> cands, out |-> "error"]

\* The event a filtered video frame stands for (history only).
VideoEvent(f) ==
    IF f.start = f.end THEN PMNone
    ELSE IF f.start THEN PMStart(IF f.ts = NoTs THEN NoTs ELSE to_duration(f.ts, VideoTimeBase))
    ELSE PMEnd(IF f.ts = NoTs THEN NoTs ELSE to_duration(f.ts, VideoTimeBase))

Joiner(medium, old, new, j) ==
    IF new.kind # "VideoAndAudio" THEN "none"
    ELSE IF old.kind = "VideoAndAudio" THEN j ELSE medium

NoEv ==
    [medium |-> "none", tag |-> "None", ts |-> NoTs, st |-> DSNone,
     start |-> FALSE, end |-> FALSE]

Ev(medium, pause, bs, f) ==
    [medium |-> medium, tag |-> pause.tag, ts |-> pause.ts, st |-> bs,
     start |-> f.start, end |-> f.end]

PMBad == [tag |-> "Bad", ts |-> NoTs]

\* ---------------------------------------------------- the exchanged scan
\* Medium m is recorded as paused in the correlation state st.
Paused(m, st) ==
    st.kind \in {IF m = "audio" THEN "Audio" ELSE "Video", "VideoAndAudio"}

\* The state st with the roles of audio and video exchanged.
MirrorState(st) ==
    IF st.kind = "Audio" THEN DSVideo(st.audio)
    ELSE IF st.kind = "Video" THEN DSAudio(st.video)
    ELSE IF st.kind = "VideoAndAudio" THEN DSVideoAndAudio(st.audio, st.video)
    ELSE DSNone

\* The exchanged scan before its first event; live says that it is followed
\* and still comparable: no contract violation so far, and every event had
\* an image.
NoMirror ==
    [bs |-> DSNone, cands |-> <<>>, inside |-> FALSE, out |-> "ok", live |-> TRUE]

\* The exchanged scan is not, or no longer, followed.
DeadMirror ==
    [bs |-> DSNone, cands |-> <<>>, inside |-> FALSE, out |-> "ok", live |-> FALSE]

\* An audio frame has an image among the video frames when its Duration is
\* one the video time base can express.
HasVideoImage(f) ==
    f.ts # NoTs /\ \E t \in Ticks(VideoTimeBase) :
        to_duration(t, VideoTimeBase) = to_duration(f.ts, AudioTimeBase)

VideoImage(f) ==
    Frame(f.start, f.end,
          CHOOSE t \in Ticks(VideoTimeBase) :
              to_duration(t, VideoTimeBase) = to_duration(f.ts, AudioTimeBase))

AudioImage(f) ==
    Frame(f.start, f.end,
          CHOOSE t \in Ticks(AudioTimeBase) :
              to_duration(t, AudioTimeBase) = to_duration(f.ts, VideoTimeBase))

\* The exchanged scan after the frame f of medium m, which met the state bs
\* and the flag inside in the scan itself: an audio frame is matched as a
\* video frame, a video frame passes frame_matches and the closure.
MirrorStep(mi, m, f, bs, inside, thr) ==
    IF ~mi.live \/ mi.out # "ok" \/ f.start = f.end THEN mi
    ELSE IF \/ f.ts = NoTs
            \/ m = "audio" /\ (f.start <=> inside)
            \/ f.start /\ Paused(m, bs)
            \/ f.end /\ ~Paused(m, bs)
            \/ m = "audio" /\ ~HasVideoImage(f)
        THEN DeadMirror
    ELSE IF m = "audio"
        THEN LET r == VideoMatch(VideoImage(f), mi.bs, mi.cands, thr)
             IN  [bs |-> r.bs, cands |-> r.cands, inside |-> mi.inside,
                  out |-> r.out, live |-> TRUE]
    ELSE LET fm == frame_matches(mi.inside, AudioImage(f))
             r == AudioCallback(fm.pause, mi.bs, mi.cands, thr)
         IN  IF fm.panic
             THEN [mi EXCEPT !.out = "panic"]
             ELSE [bs |-> r.bs, cands |-> r.cands, inside |-> fm.inside,
                   out |-> r.out, live |-> TRUE]

\* ------------------------------------------------------------------ Init
Init ==
    /\ pc = "next"
    /\ remaining = MaxPackets
    /\ pkt = NoTs
    /\ dec = NoFrame
    /\ ret = "none"
    /\ state = "Ongoing"
    /\ blank_state = DSNone
    /\ candidates = <<>>
    /\ at_end = FALSE
    /\ inside_pause = FALSE
    /\ until \in {1, MaxUntil}
    /\ threshold \in {0, MaxThreshold}
    /\ aclk = 0
    /\ vclk = 0
    /\ astart = NoTs
    /\ vstart = NoTs
    /\ vdone = FALSE
    /\ ev = NoEv
    /\ joiner = "none"
    /\ ops = <<>>
    /\ mirror = DeadMirror

\* --------------------------------------------------------------- actions
\* for (stream, packet) in ictx.packets(): the next packet reaches
\* detected_pauses_from_packet, up to the decode.
DecodeResults(time_base) == {NoFrame, NoTs} \cup Ticks(time_base)

AudioDone(s, r) == IF r = "Some(false)" THEN end_of_audio(s) ELSE s

HorizonReachedStrict(at_ts, u) == at_ts > u

HorizonReached(at_ts, u) == at_ts >= u

\* The two early returns of detected_pauses_from_packet, in their order.
PacketOutcomeEndFirst(stream, ended) ==
    IF ended THEN "None"
    ELSE IF stream # AudioStream THEN "Some(false)" ELSE "decode"

PacketOutcomeNoEndCheck(stream, ended) ==
    IF stream # AudioStream THEN "Some(false)" ELSE "decode"

PacketOutcome(stream, ended) ==
    IF stream # AudioStream THEN "Some(false)"
    ELSE IF ended THEN "None" ELSE "decode"

AudioPacket ==
    /\ pc = "next"
    /\ remaining > 0
    /\ remaining' = remaining - 1
    /\ \E stream \in 0..(NumStreams - 1), d \in DecodeResults(AudioTimeBase) :
        LET o == PacketOutcome(stream, at_end)
        IN  /\ pkt' = stream
            /\ IF o # "decode"
               THEN /\ d = NoFrame
                    /\ ret' = o
                    /\ state' = AudioDone(state, o)
                    /\ pc' = "video"
                    /\ dec' = NoFrame
               ELSE IF d = NoFrame
               THEN /\ ret' = "Some(true)"
                    /\ state' = AudioDone(state, "Some(true)")
                    /\ pc' = "video"
                    /\ dec' = NoFrame
               ELSE /\ ret' = "pending"
                    /\ state' = state
                    /\ pc' = "adecoded"
                    /\ dec' = d
    /\ UNCHANGED <<blank_state, candidates, at_end, inside_pause, until,
                   threshold, aclk, vclk, astart, vstart, vdone, ev, joiner,
                   ops, mirror>>

\* if at_ts >= until { self.set_at_end() }; self.filter_frame_in(&frame)
AudioHorizon ==
    /\ pc = "adecoded"
    /\ at_end' = (at_end \/ (dec # NoTs
                              /\ HorizonReached(to_duration(dec, AudioTimeBase), until)))
    /\ pc' = "afilter"
    /\ dec' = NoFrame
    /\ UNCHANGED <<remaining, pkt, ret, state, blank_state, candidates,
                   inside_pause, until, threshold, aclk, vclk, astart, vstart,
                   vdone, ev, joiner, ops, mirror>>

\* while let Ok(..) = filter_frame_output: callback(frame_matches(&frame))
AudioFrame ==
    /\ pc = "afilter"
    /\ Len(candidates) < MaxCandidates
    /\ \E f \in Frames(aclk, AudioTimeBase) :
        LET m == frame_matches(inside_pause, f)
            r == AudioCallback(m.pause, blank_state, candidates, threshold)
        IN  /\ aclk' = IF f.ts = NoTs THEN aclk ELSE f.ts
            /\ IF m.panic
               THEN /\ pc' = "panic"
                    /\ ev' = Ev("audio", PMBad, blank_state, f)
                    /\ UNCHANGED <<inside_pause, blank_state, candidates, astart, joiner>>
               ELSE /\ inside_pause' = m.inside
                    /\ ev' = Ev("audio", m.pause, blank_state, f)
                    /\ astart' = IF m.pause.tag = "Start" THEN m.pause.ts ELSE astart
                    /\ joiner' = Joiner("audio", blank_state, r.bs, joiner)
                    /\ blank_state' = r.bs
                    /\ candidates' = r.cands
                    /\ pc' = IF r.out = "ok" THEN "afilter" ELSE r.out
            /\ mirror' = MirrorStep(mirror, "audio", f, blank_state, inside_pause,
                                     threshold)
    /\ UNCHANGED <<remaining, pkt, dec, ret, state, at_end, until, threshold, vclk,
                   vstart, vdone, ops>>

\* filter_frame_output fails: the loop ends, the call returns Ok(Some(true)).
AudioFilterDone ==
    /\ pc = "afilter"
    /\ pc' = "video"
    /\ ret' = "Some(true)"
    /\ state' = AudioDone(state, "Some(true)")
    /\ UNCHANGED <<remaining, pkt, dec, blank_state, candidates, at_end,
                   inside_pause, until, threshold, aclk, vclk, astart, vstart,
                   vdone, ev, joiner, ops, mirror>>

\* if state.reading_video() && stream.index() == self.video_stream { decode }
VideoPacket ==
    /\ pc = "video"
    /\ \E d \in DecodeResults(VideoTimeBase) :
        IF reading_video(state) /\ pkt = VideoStream /\ d # NoFrame
        THEN /\ pc' = "vdecoded"
             /\ dec' = d
        ELSE /\ d = NoFrame
             /\ pc' = "check"
             /\ dec' = NoFrame
    /\ UNCHANGED <<remaining, pkt, ret, state, blank_state, candidates, at_end,
                   inside_pause, until, threshold, aclk, vclk, astart, vstart,
                   vdone, ev, joiner, ops, mirror>>

\* if at_ts >= until { state = state.end_of_video() }; video_filter "in" add
VideoHorizon ==
    /\ pc = "vdecoded"
    /\ LET reached == dec # NoTs /\ HorizonReached(to_duration(dec, VideoTimeBase), until)
       IN  /\ state' = IF reached THEN end_of_video(state) ELSE state
           /\ vdone' = (vdone \/ reached)
    /\ pc' = "vfilter"
    /\ dec' = NoFrame
    /\ UNCHANGED <<remaining, pkt, ret, blank_state, candidates, at_end,
                   inside_pause, until, threshold, aclk, vclk, astart, vstart,
                   ev, joiner, ops, mirror>>

\* while let Ok(..) = video_filter sink frame: the match on the metadata
VideoFrame ==
    /\ pc = "vfilter"
    /\ Len(candidates) < MaxCandidates
    /\ \E f \in Frames(vclk, VideoTimeBase) :
        LET r == VideoMatch(f, blank_state, candidates, threshold)
            e == VideoEvent(f)
        IN  /\ vclk' = IF f.ts = NoTs THEN vclk ELSE f.ts
            /\ ev' = Ev("video", e, blank_state, f)
            /\ vstart' = IF e.tag = "Start" /\ e.ts # NoTs THEN e.ts ELSE vstart
            /\ joiner' = Joiner("video", blank_state, r.bs, joiner)
            /\ blank_state' = r.bs
            /\ candidates' = r.cands
            /\ pc' = IF r.out = "ok" THEN "vfilter" ELSE r.out
            /\ mirror' = MirrorStep(mirror, "video", f, blank_state, inside_pause,
                                     threshold)
    /\ UNCHANGED <<remaining, pkt, dec, ret, state, at_end, inside_pause, until,
                   threshold, aclk, astart, vdone, ops>>

VideoFilterDone ==
    /\ pc = "vfilter"
    /\ pc' = "check"
    /\ UNCHANGED <<remaining, pkt, dec, ret, state, blank_state, candidates, at_end,
                   inside_pause, until, threshold, aclk, vclk, astart, vstart,
                   vdone, ev, joiner, ops, mirror>>

\* if state.at_end() { break; }
Check ==
    /\ pc = "check"
    /\ pc' = IF stream_at_end(state) THEN "broke" ELSE "next"
    /\ UNCHANGED <<remaining, pkt, dec, ret, state, blank_state, candidates, at_end,
                   inside_pause, until, threshold, aclk, vclk, astart, vstart,
                   vdone, ev, joiner, ops, mirror>>

\* ictx.packets() is exhausted: Ok(candidates)
Exhausted ==
    /\ pc = "next"
    /\ remaining = 0
    /\ pc' = "exhausted"
    /\ UNCHANGED <<remaining, pkt, dec, ret, state, blank_state, candidates, at_end,
                   inside_pause, until, threshold, aclk, vclk, astart, vstart,
                   vdone, ev, joiner, ops, mirror>>

Next ==
    \/ AudioPacket
    \/ AudioHorizon
    \/ AudioFrame
    \/ AudioFilterDone
    \/ VideoPacket
    \/ VideoHorizon
    \/ VideoFrame
    \/ VideoFilterDone
    \/ Check
    \/ Exhausted

Spec == Init /\ [][Next]_vars

\* ------------------------------------------- scans of interleaved media
\* A packet carries frames of one medium only, so events in the order audio,
\* video, audio (or video, audio, video) take one packet more; the exchanged
\* scan is followed next to the scan itself.
InitInterleaved ==
    /\ pc = "next"
    /\ remaining = MaxPackets + 1
    /\ pkt = NoTs
    /\ dec = NoFrame
    /\ ret = "none"
    /\ state = "Ongoing"
    /\ blank_state = DSNone
    /\ candidates = <<>>
    /\ at_end = FALSE
    /\ inside_pause = FALSE
    /\ until = MaxUntil
    /\ threshold \in {0, MaxThreshold}
    /\ aclk = 0
    /\ vclk = 0
    /\ astart = NoTs
    /\ vstart = NoTs
    /\ vdone = FALSE
    /\ ev = NoEv
    /\ joiner = "none"
    /\ ops = <<>>
    /\ mirror = NoMirror

SpecInterleaved == InitInterleaved /\ [][Next]_vars

\* ------------------------------------------------ StreamState on its own
\* The two transitions applied in any order, starting from the default.
InitTracker ==
    /\ pc = "tracker"
    /\ remaining = 0
    /\ pkt = NoTs
    /\ dec = NoFrame
    /\ ret = "none"
    /\ state = "Ongoing"
    /\ blank_state = DSNone
    /\ candidates = <<>>
    /\ at_end = FALSE
    /\ inside_pause = FALSE
    /\ until = 1
    /\ threshold = 0
    /\ aclk = 0
    /\ vclk = 0
    /\ astart = NoTs
    /\ vstart = NoTs
    /\ vdone = FALSE
    /\ ev = NoEv
    /\ joiner = "none"
    /\ ops = <<>>
    /\ mirror = DeadMirror

ApplyEndOfAudio ==
    /\ pc = "tracker"
    /\ Len(ops) < MaxOps
    /\ state' = end_of_audio(state)
    /\ ops' = Append(ops, [op |-> "end_of_audio", from |-> state])
    /\ UNCHANGED <<pc, remaining, pkt, dec, ret, blank_state, candidates, at_end,
                   inside_pause, until, threshold, aclk, vclk, astart, vstart,
                   vdone, ev, joiner, mirror>>

ApplyEndOfVideo ==
    /\ pc = "tracker"
    /\ Len(ops) < MaxOps
    /\ state' = end_of_video(state)
    /\ ops' = Append(ops, [op |-> "end_of_video", from |-> state])
    /\ UNCHANGED <<pc, remaining, pkt, dec, ret, blank_state, candidates, at_end,
                   inside_pause, until, threshold, aclk, vclk, astart, vstart,
                   vdone, ev, joiner, mirror>>

NextTracker ==
    \/ ApplyEndOfAudio
    \/ ApplyEndOfVideo

SpecTracker == InitTracker /\ [][NextTracker]_vars

\* ------------------------------------------------------------ properties
\* The step just taken handed a filtered frame of medium m to the correlator.
FrameStep(m) ==
    IF m = "audio" THEN pc = "afilter" /\ pc' # "video"
    ELSE pc = "vfilter" /\ pc' # "check"

\* ... and the correlator accepted it (no panic, no error).
FrameStepOk(m) ==
    IF m = "audio" THEN pc = "afilter" /\ pc' = "afilter"
    ELSE pc = "vfilter" /\ pc' = "vfilter"

Media == {"audio", "video"}

Other(m) == IF m = "audio" THEN "video" ELSE "audio"

\* The Start time of medium m's current run, as the events reported it.
OwnStart(m) == IF m = "audio" THEN astart ELSE vstart

Single(m, d) == IF m = "audio" THEN DSAudio(d) ELSE DSVideo(d)

SingleKind(m) == IF m = "audio" THEN "Audio" ELSE "Video"

\* The last event matched was an End of medium m met in the both-paused state.
EndInBoth(m) ==
    /\ ev.medium = m
    /\ ev.tag = "End"
    /\ ev.ts # NoTs
    /\ ev.st.kind = "VideoAndAudio"

\* The length the code computes for that event (own field of the state).
ComputedLength(e) == IF e.medium = "audio" THEN e.ts - e.st.audio ELSE e.ts - e.st.video

Last(s) == s[Len(s)]

Running == pc \notin {"panic", "error"}

\* C1: an End(t) of medium X processed while both media are recorded as
\* paused computes the length t - (X's own Start time), whichever medium
\* started first: the event is accepted, a candidate is appended exactly
\* when that length exceeds threshold, and it carries that length.
C1_LengthFromOwnStart ==
    [][\A m \in Media :
        (FrameStep(m) /\ EndInBoth(m)')
        => LET length == ev'.ts - OwnStart(m)'
           IN  /\ FrameStepOk(m)
               /\ (length > threshold) <=> (Len(candidates') = Len(candidates) + 1)
               /\ (length > threshold) => Last(candidates').length = length]_vars

\* C2: every candidate appended has as offset the later of the last audio
\* Start time and the last video Start time.
C2_OffsetIsLaterStart ==
    [][(Len(candidates') > Len(candidates))
        => Last(candidates').offset = max(astart', vstart')]_vars

\* C2 witness: audio started before video, both were open, and the End that
\* closed them appended a candidate at the video Start time.
C2_Witness ==
    /\ \E m \in Media : EndInBoth(m)
    /\ astart # NoTs
    /\ astart < vstart
    /\ Len(candidates) = 1
    /\ candidates[1].offset = vstart
    /\ Running

\* C3: in the both-paused state the audio field is the time of the last
\* audio Start and the video field is the time of the last video Start.
C3_BothRecordsOwnStarts ==
    blank_state.kind = "VideoAndAudio"
        => (blank_state.audio = astart /\ blank_state.video = vstart)

\* C4: after an End of X accepted in the both-paused state, the state is
\* the single-medium state of the other medium Y with Y's own Start time.
C4_EndLeavesOtherWithOwnStart ==
    \A m \in Media :
        (EndInBoth(m) /\ Running)
        => blank_state = Single(Other(m), OwnStart(Other(m)))

C7_LoneRunEndsIdle ==
    [][\A m \in Media :
        (FrameStep(m) /\ ev'.medium = m /\ ev'.tag = "End"
            /\ ev'.st.kind = SingleKind(m))
        => /\ FrameStepOk(m)
           /\ blank_state' = DSNone
           /\ candidates' = candidates]_vars

\* C7 witness: an audio run longer than threshold ended alone: idle again,
\* nothing appended.
C7_Witness ==
    /\ ev.medium = "audio"
    /\ ev.tag = "End"
    /\ ev.st.kind = "Audio"
    /\ ev.ts - ev.st.audio > threshold
    /\ vstart = NoTs
    /\ blank_state = DSNone
    /\ candidates = <<>>
    /\ Running

\* C8: while medium Y stays paused, every run [s, e] of the other medium X
\* that starts and ends inside Y's run and is longer than threshold appends
\* the candidate (max(s, Y's start), e - s), and after it the correlator is
\* in Y's single-medium state with Y's original start time; so two such
\* runs append two candidates, with Y's state in between.
C8_InnerRunsOfOtherMedium ==
    [][\A m \in Media :
        (FrameStep(m) /\ EndInBoth(m)' /\ joiner = m
            /\ ev'.ts - OwnStart(m) > threshold)
        => /\ FrameStepOk(m)
           /\ candidates' = Append(candidates,
                  Candidate(max(OwnStart(m), OwnStart(Other(m))),
                            ev'.ts - OwnStart(m)))
           /\ blank_state' = Single(Other(m), OwnStart(Other(m)))]_vars

\* C9: when detect leaves the packet loop by break, the audio detector has
\* at_end set and a decoded video frame has reached until.
C9_BreakMeansBothReachedUntil ==
    pc = "broke" => (at_end /\ vdone)

\* C10: end_of_audio and end_of_video never turn reading_audio or
\* reading_video from false back to true, and End is terminal.
C10_TrackerMonotonic ==
    [][/\ reading_audio(state') => reading_audio(state)
       /\ reading_video(state') => reading_video(state)
       /\ (state = "End") => (state' = "End")]_vars

\* C11: from Ongoing, end_of_audio then end_of_video, or end_of_video then
\* end_of_audio, yields End (at_end is true); end_of_audio applied twice from
\* Ongoing yields what one application yields, EndOfAudio, and likewise
\* end_of_video yields EndOfVideo.
C11_TrackerJoinAndIdempotence ==
    LET op(i) == ops[i].op
    IN  /\ (Len(ops) = 2 /\ op(1) # op(2)) => stream_at_end(state)
        /\ (Len(ops) \in {1, 2} /\ \A i \in 1..Len(ops) : op(i) = "end_of_audio")
           => state = "EndOfAudio"
        /\ (Len(ops) \in {1, 2} /\ \A i \in 1..Len(ops) : op(i) = "end_of_video")
           => state = "EndOfVideo"

\* C11 witness: end_of_video then end_of_audio were applied from Ongoing and
\* the tracker is at End.
C11_Witness ==
    /\ Len(ops) = 2
    /\ ops[1] = [op |-> "end_of_video", from |-> "Ongoing"]
    /\ ops[2].op = "end_of_audio"
    /\ state = "End"

\* The event e breaks the contract: exactly one tag, and the frame has no
\* timestamp, or it is a Start for a medium recorded as paused, or an End
\* for a medium not recorded as paused (the detector's own flag included).
Violation(e) ==
    /\ e.medium \in Media
    /\ e.start # e.end
    /\ \/ e.tag = "Bad"
       \/ e.ts = NoTs
       \/ e.start /\ Paused(e.medium, e.st)
       \/ e.end /\ ~Paused(e.medium, e.st)

\* C12: a contract violation never updates the correlation state, never
\* appends a candidate, and ends the scan with an error outcome of detect,
\* on the audio side as on the video side.
C12_ViolationIsErrorOutcome ==
    [][\A m \in Media :
        (FrameStep(m) /\ Violation(ev'))
        => /\ blank_state' = blank_state
           /\ candidates' = candidates
           /\ pc' = "error"]_vars

\* The step just taken was a call of detected_pauses_from_packet up to its
\* early returns or its decode.
CallStep == pc = "next" /\ pc' # "exhausted" /\ pc' # "next"

\* C13: a packet of another stream makes detected_pauses_from_packet return
\* Some(false) without invoking the callback and without touching
\* inside_pause or at_end, also when the detector is already at_end.
C13_ForeignPacketNotApplicable ==
    [][(CallStep /\ pkt' # AudioStream)
        => /\ ret' = "Some(false)"
           /\ pc' = "video"
           /\ inside_pause' = inside_pause
           /\ at_end' = at_end
           /\ ev' = ev
           /\ blank_state' = blank_state
           /\ candidates' = candidates]_vars

\* C13 witness: the detector was at_end and a video packet was reported as
\* not applicable.
C13_Witness ==
    /\ at_end
    /\ pkt = VideoStream
    /\ ret = "Some(false)"
    /\ pc = "video"

\* C14: once at_end is set, every call with a packet of the detector's own
\* stream returns None, invokes no callback and leaves inside_pause and
\* at_end as they are; at_end is never reset.
C14_FinishedIsNoOp ==
    [][/\ at_end => at_end'
       /\ (CallStep /\ at_end /\ pkt' = AudioStream)
          => /\ ret' = "None"
             /\ pc' = "video"
             /\ inside_pause' = inside_pause
             /\ ev' = ev
             /\ blank_state' = blank_state
             /\ candidates' = candidates]_vars

\* C14 witness: an audio packet arrived after at_end was set, inside a
\* silence that is still open, and the call returned None.
C14_Witness ==
    /\ at_end
    /\ inside_pause
    /\ pkt = AudioStream
    /\ ret = "None"
    /\ pc = "video"

\* C15: a filtered frame carrying both the run-start and the run-end tag is
\* no event, for audio and for video and in every state: inside_pause and
\* the correlation state stay, nothing is appended, nothing fails.
C15_BothTagsIsNoEvent ==
    [][\A m \in Media :
        (FrameStep(m) /\ ev'.start /\ ev'.end)
        => /\ FrameStepOk(m)
           /\ ev'.tag = "None"
           /\ inside_pause' = inside_pause
           /\ blank_state' = blank_state
           /\ candidates' = candidates]_vars

\* C15 witness: a video frame with both tags met the both-paused state while
\* the audio detector was inside a pause, and the scan goes on.
C15_Witness ==
    /\ ev.medium = "video"
    /\ ev.start
    /\ ev.end
    /\ ev.st.kind = "VideoAndAudio"
    /\ blank_state.kind = "VideoAndAudio"
    /\ inside_pause
    /\ pc = "vfilter"

\* C16: every Start or End event handed to the correlator either changes
\* the kind of the correlation state or is a contract violation.
C16_NoSilentNoOp ==
    [][\A m \in Media :
        (FrameStep(m) /\ ev'.medium = m /\ ev'.tag \in {"Start", "End"})
        => \/ FrameStepOk(m) /\ blank_state'.kind # blank_state.kind
           \/ Violation(ev')]_vars

\* C17: the candidate list only grows at its end: a step leaves it as it is
\* or appends the candidate of the End event it has just processed.
C17_AppendOnlyInEndOrder ==
    [][\/ candidates' = candidates
       \/ \E m \in Media :
            /\ FrameStep(m)
            /\ EndInBoth(m)'
            /\ candidates' = Append(candidates,
                   Candidate(max(ev'.st.video, ev'.st.audio), ComputedLength(ev')))]_vars

\* C17 witness: two candidates, the earlier one first although it is the
\* longer one.
C17_Witness ==
    /\ Len(candidates) = 2
    /\ candidates[1].length > candidates[2].length
    /\ candidates[1].offset < candidates[2].offset
    /\ \E m \in Media : EndInBoth(m)
    /\ Running

\* ------------------------------------------------------- progress of detect
\* detect is sequential code: each position is left, and a filter hands out
\* finitely many frames per packet, so each frame loop is left as well.
Fairness ==
    /\ WF_vars(AudioPacket)
    /\ WF_vars(AudioHorizon)
    /\ WF_vars(AudioFilterDone)
    /\ WF_vars(VideoPacket)
    /\ WF_vars(VideoHorizon)
    /\ WF_vars(VideoFilterDone)
    /\ WF_vars(Check)
    /\ WF_vars(Exhausted)

\* Whether detect returns does not depend on threshold; the horizon is the
\* largest one, so that frames on both sides of it occur.
InitLive == Init /\ threshold = 0 /\ until = MaxUntil

SpecLive == InitLive /\ [][Next]_vars /\ Fairness

Returned == pc \in {"broke", "exhausted", "error", "panic"}

\* C18: detect terminates on every finite packet sequence.
C18_Terminates == <>Returned

\* C18 (safety part): the iteration in which the tracker reaches End is the
\* last one, no packet is taken after detect has left the loop, the loop is
\* left without End only when the packets are exhausted, and once both media
\* have decoded a frame at or past until the iteration ends with a break.
C18_StopsAtEnd ==
    [][/\ (pc = "check" /\ stream_at_end(state)) => pc' = "broke"
       /\ (pc = "check" /\ at_end /\ vdone) => pc' = "broke"
       /\ Returned => (pc' = pc /\ remaining' = remaining)
       /\ (pc' = "exhausted") => (remaining = 0 /\ ~stream_at_end(state))
       /\ (pc' = "broke") => stream_at_end(state)]_vars

\* C18: detect terminates on every finite packet sequence, and it stops as
\* C18_StopsAtEnd says.
C18_TerminatesAtEndOrExhaustion == C18_StopsAtEnd /\ C18_Terminates

\* C18 witness: detect broke out of the loop in the iteration in which the
\* second medium decoded a frame at or past until.
C18_Witness ==
    /\ pc = "broke"
    /\ at_end
    /\ vdone

\* C19: at_end becomes true exactly when a packet of the detector's own
\* stream decodes to a frame whose timestamp is at or past until (a frame
\* exactly at until counts); the frames the filter hands out for that packet
\* still reach the callback in the same call.  The video side marks
\* end_of_video under the same test.
C19_HorizonInclusive ==
    [][/\ (at_end' # at_end) => pc = "adecoded"
       /\ (pc = "adecoded" /\ pc' # pc)
          => /\ pkt = AudioStream
             /\ at_end' = (dec # NoTs /\ to_duration(dec, AudioTimeBase) >= until)
             /\ pc' = "afilter"
       /\ (state' # state /\ pc # "next") => pc = "vdecoded"
       /\ (pc = "vdecoded" /\ pc' # pc)
          => /\ pkt = VideoStream
             /\ vdone' = (vdone \/ (dec # NoTs /\ to_duration(dec, VideoTimeBase) >= until))
             /\ (state' # state) => (dec # NoTs /\ to_duration(dec, VideoTimeBase) >= until)
             /\ pc' = "vfilter"]_vars

\* C19 witness: the first packet set at_end and a Start event of that same
\* packet was still delivered.
C19_Witness ==
    /\ at_end
    /\ remaining = MaxPackets - 1
    /\ pc = "afilter"
    /\ ev.medium = "audio"
    /\ ev.tag = "Start"
    /\ blank_state.kind = "Audio"

\* C20: the audio detector's events alternate Start, End, Start, ...: a Start
\* is emitted only with inside_pause false and sets it, an End only with
\* inside_pause true and clears it, nothing else changes inside_pause, and a
\* tag that would break the alternation is fatal instead of an event.
C20_EventsAlternate ==
    [][/\ (FrameStep("audio") /\ ev'.tag = "Start") => (~inside_pause /\ inside_pause')
       /\ (FrameStep("audio") /\ ev'.tag = "End") => (inside_pause /\ ~inside_pause')
       /\ (inside_pause' # inside_pause)
          => (FrameStep("audio") /\ ev'.tag \in {"Start", "End"})
       /\ (FrameStep("audio") /\ ev'.start # ev'.end
             /\ (ev'.start <=> inside_pause))
          => (pc' = "panic" /\ ev'.tag = "Bad" /\ inside_pause' = inside_pause)]_vars

\* C20 witness: a Start, its End (which closed a candidate) and a second
\* Start were emitted in turn.
C20_Witness ==
    /\ ev.medium = "audio"
    /\ ev.tag = "Start"
    /\ inside_pause
    /\ joiner = "audio"
    /\ Len(candidates) = 1
    /\ candidates[1].offset < ev.ts
    /\ Running

\* C21 (state part): the audio detector's inside_pause flag is true exactly
\* when the correlation state records audio as paused.
C21_FlagIsRecordedState == inside_pause <=> Paused("audio", blank_state)

\* C21 (consequence): an event frame_matches emits always meets one of the
\* closure's named arms (Start in None or Video, End in Audio or
\* VideoAndAudio), so the closure's catch-all arm is never taken.
C21_CatchAllNeverTaken ==
    [][(FrameStep("audio") /\ ev'.tag \in {"Start", "End"})
        => IF ev'.tag = "Start"
           THEN ev'.st.kind \in {"None", "Video"}
           ELSE ev'.st.kind \in {"Audio", "VideoAndAudio"}]_vars

C22_LengthNeverUnderflows ==
    [][\A m \in Media :
        (FrameStep(m) /\ EndInBoth(m)')
        => /\ ComputedLength(ev') >= 0
           /\ pc' # "panic"]_vars

\* C23: the correlation logic is symmetric in the two media: for an event
\* sequence without contract violation, the scan of the sequence with the
\* roles of audio and video exchanged goes on exactly as long as the scan
\* itself, has the same candidates (offsets, lengths, order), and its
\* correlation state is the mirror image of the scan's.
C23_SymmetricInMedia ==
    mirror.live
    => /\ Running <=> mirror.out = "ok"
       /\ Running => /\ mirror.cands = candidates
                     /\ MirrorState(mirror.bs) = blank_state

====
